---- MODULE Spec2Model ----
(***************************************************************************)
(* Model of EqSourceDeterminator (src/EqSourceDeterminator.py): one object *)
(* of the class, its attributes, and its three methods is_inland,          *)
(* distance_to_fault and determine_eq_source.                              *)
(*                                                                         *)
(* Python values are encoded as follows.                                   *)
(*   - a number or a missing number is a record [t, v]: t is the Python    *)
(*     type ("None", "int", "float", "str"), v the value (0 when unused);  *)
(*   - the attribute is_inland is a string: "method" while the class       *)
(*     method is not shadowed, "True"/"False" for the numpy boolean,       *)
(*     "darat"/"laut" for the labels;                                      *)
(*   - a dataframe is a record [t, rows]: t is "frame", "None", "unset"    *)
(*     (attribute never assigned) or "method", rows the sequence of rows   *)
(*     [Segment, Distance];                                                *)
(*   - distances are in metres (1/1000 km), so that 111.18 and 15.999 are  *)
(*     integers;                                                           *)
(*   - geometry is one-dimensional: a land polygon is the open longitude   *)
(*     interval (lo, hi), a fault line is the meridian at longitude x.     *)
(***************************************************************************)
EXTENDS Integers, Sequences, FiniteSets, TLC

VARIABLES latitude, longitude, depth, url_geometry,
          self_is_inland, self_distance_to_fault, self_nearest_segment,
          segment_name, faultLayer, last, completed

vars == <<latitude, longitude, depth, url_geometry,
          self_is_inland, self_distance_to_fault, self_nearest_segment,
          segment_name, faultLayer, last, completed>>

ctor == <<latitude, longitude, depth, url_geometry, faultLayer>>

(* ---------------------------- bounds ----------------------------------- *)
MaxFaults == 2

(* ------------------------ program constants ---------------------------- *)
KmPerDegree == 111180
NearFaultLimit == 16000
SubductionDepth == 50

SubductionLabel == "zona subduksi"
LocalFaultLabel == "Sesar Lokal"
LandLabel == "darat"
SeaLabel == "laut"

(* ------------------------ value encodings ------------------------------ *)
None == [t |-> "None", v |-> 0]
PyInt(n) == [t |-> "int", v |-> n]
PyFloat(n) == [t |-> "float", v |-> n]
Str == [t |-> "str", v |-> 0]

NoneFrame == [t |-> "None", rows |-> <<>>]
UnsetFrame == [t |-> "unset", rows |-> <<>>]
MethodFrame == [t |-> "method", rows |-> <<>>]
Frame(rows) == [t |-> "frame", rows |-> rows]

Abs(n) == IF n < 0 THEN -n ELSE n

(* ------------------------ the two layers ------------------------------- *)
LandRef == "indo_provinces.shp"
FaultRef == "IndonesiaFaultModels_Pusgen2016.geojson"

LandLayer == << [lo |-> -1, hi |-> 1] >>

FaultXs == {0, 2}

SegmentName(i) == IF i = 1 THEN "Mentawai" ELSE IF i = 2 THEN "Siulak" ELSE "Sumani"

FaultLayers == UNION { [1..n -> FaultXs] : n \in 0..MaxFaults }

(* land_geometry.contains(eq_point).any(): strict point-in-polygon *)
Contains(layer, lon) == \E i \in 1..Len(layer) : layer[i].lo < lon.v /\ lon.v < layer[i].hi

BoolStr(b) == IF b THEN "True" ELSE "False"

IsFloatOrInt(x) == x.t \in {"float", "int"}

(* isinstance(x, float) *)
IsFloat(x) == x.t = "float"

(* 111.18 * eq_point.distance(line), one row per fault record, in layer order *)
DistanceRows(layer, lon) ==
    [i \in 1..Len(layer) |-> [Segment |-> SegmentName(i),
                              Distance |-> KmPerDegree * Abs(lon.v - layer[i])]]

MinDistance(rows) ==
    CHOOSE d \in {rows[i].Distance : i \in 1..Len(rows)} :
        \A j \in 1..Len(rows) : d <= rows[j].Distance

IsMin(rows, r) == r.Distance = MinDistance(rows)

(* df.loc[df['Distance'] == df['Distance'].min()] *)
NearestRows(rows) ==
    IF Len(rows) = 0 THEN <<>> ELSE SelectSeq(rows, LAMBDA r : IsMin(rows, r))

(* x = self.x if x is None else x *)
Eff(arg, attr) == IF arg.t = "None" THEN attr ELSE arg

EffStr(arg, attr) == IF arg = "None" THEN attr ELSE arg

(* ------------------------ inputs --------------------------------------- *)
(* Constructor values and call arguments.  An integer latitude reaches   *)
(* the methods as an argument, an integer longitude as the constructor    *)
(* value; a depth that is no number reaches determine_eq_source as an     *)
(* argument.  Fault names differ from the four label strings.             *)
CtorLatitudes == {None, PyFloat(0)}
CtorLongitudes == {PyFloat(0), PyFloat(1), PyInt(0)}
CtorDepths == {None, PyInt(50), PyFloat(51)}
LatArgs == {None, PyInt(0)}
LonArgs == {None}
LandArgs == {"None", LandRef}
FaultArgs == {"None", FaultRef}
InlandArgs == {"None", "True", "False"}
DepthArgs == {None, Str}
NearestArgs == {NoneFrame,
                Frame(<< [Segment |-> "Sumani", Distance |-> 15999] >>),
                Frame(<< [Segment |-> "Sumani", Distance |-> 16000] >>)}

NoCall == [op |-> "none", err |-> "ok", msg |-> "",
           lat |-> None, lon |-> None, url |-> "None",
           inl |-> "None", near |-> NoneFrame, dep |-> None, e_inl |-> "None"]

(* __init__ *)
Init ==
    /\ latitude \in CtorLatitudes
    /\ longitude \in CtorLongitudes
    /\ depth \in CtorDepths
    /\ url_geometry \in {<<"None", "None">>, <<LandRef, FaultRef>>}
    /\ faultLayer \in FaultLayers
    /\ self_is_inland = "method"
    /\ self_distance_to_fault = MethodFrame
    /\ self_nearest_segment = UnsetFrame
    /\ segment_name = "unset"
    /\ last = NoCall
    /\ completed = {}

(* bookkeeping common to every call *)
Called(op, err, msg, rec) ==
    /\ last' = [rec EXCEPT !.op = op, !.err = err, !.msg = msg]
    /\ completed' = IF err = "ok" /\ op # "determine_eq_source"
                    THEN completed \cup {op} ELSE completed
    /\ UNCHANGED ctor

(* the error is_inland raises before it writes anything, "ok" if none *)
IsInlandError(lat, lon, url) ==
    IF self_is_inland # "method" THEN <<"TypeError", "not callable">>
    ELSE IF url = "None" /\ url_geometry[1] = "None" THEN <<"FileNotFoundError", "shapefile">>
    ELSE IF lat.t = "None" /\ latitude.t = "None" THEN <<"ValueError", "latitude">>
    ELSE IF lon.t = "None" /\ longitude.t = "None" THEN <<"ValueError", "longitude">>
    ELSE <<"ok", "">>

IsInlandCallClobber(lat, lon, url) ==
    LET e == IsInlandError(lat, lon, url)
        rec == [NoCall EXCEPT !.lat = lat, !.lon = lon, !.url = url]
    IN /\ Called("is_inland", e[1], e[2], rec)
       /\ self_is_inland' = IF e[1] = "ok"
                            THEN BoolStr(Contains(LandLayer, Eff(lon, longitude)))
                            ELSE self_is_inland
       /\ self_nearest_segment' = IF e[1] = "ok" THEN UnsetFrame ELSE self_nearest_segment
       /\ UNCHANGED <<self_distance_to_fault, segment_name>>

IsInlandCall(lat, lon, url) ==
    LET e == IsInlandError(lat, lon, url)
        rec == [NoCall EXCEPT !.lat = lat, !.lon = lon, !.url = url]
    IN /\ Called("is_inland", e[1], e[2], rec)
       /\ self_is_inland' = IF e[1] = "ok"
                            THEN BoolStr(Contains(LandLayer, Eff(lon, longitude)))
                            ELSE self_is_inland
       /\ UNCHANGED <<self_distance_to_fault, self_nearest_segment, segment_name>>

IsInland ==
    \E lat \in LatArgs, lon \in LonArgs, url \in LandArgs : IsInlandCall(lat, lon, url)

(* the error distance_to_fault raises before it writes anything *)
DistanceToFaultError(lat, lon, url) ==
    IF self_distance_to_fault.t # "method" THEN <<"TypeError", "not callable">>
    ELSE IF url = "None" /\ url_geometry[2] = "None" THEN <<"FileNotFoundError", "shapefile">>
    ELSE IF lat.t = "None" /\ latitude.t = "None" THEN <<"ValueError", "latitude">>
    ELSE IF lon.t = "None" /\ longitude.t = "None" THEN <<"ValueError", "longitude">>
    ELSE IF ~IsFloat(Eff(lat, latitude)) THEN <<"TypeError", "latitude type">>
    ELSE IF ~IsFloat(Eff(lon, longitude)) THEN <<"TypeError", "longitude type">>
    ELSE <<"ok", "">>

DistanceToFaultCall(lat, lon, url) ==
    LET e == DistanceToFaultError(lat, lon, url)
        rec == [NoCall EXCEPT !.lat = lat, !.lon = lon, !.url = url]
        rows == DistanceRows(faultLayer, Eff(lon, longitude))
    IN /\ Called("distance_to_fault", e[1], e[2], rec)
       /\ IF e[1] = "ok"
          THEN /\ self_distance_to_fault' = Frame(rows)
               /\ self_nearest_segment' = Frame(NearestRows(rows))
          ELSE UNCHANGED <<self_distance_to_fault, self_nearest_segment>>
       /\ UNCHANGED <<self_is_inland, segment_name>>

DistanceToFault ==
    \E lat \in LatArgs, lon \in LonArgs, url \in FaultArgs : DistanceToFaultCall(lat, lon, url)

(* isinstance(depth, int) or isinstance(depth, float) *)
IsNumeric(d) == d.t \in {"int", "float"}

(* isinstance(is_inland, bool) or isinstance(is_inland, np.bool_) *)
IsBoolean(i) == i \in {"True", "False"}

IsSubductionInclusive(d) == d.v >= SubductionDepth

(* depth > 50 *)
IsSubduction(d) == d.v > SubductionDepth

IsNearFaultInclusive(dist) == dist <= NearFaultLimit

(* nearest_segment.Distance.values < 16, one row *)
IsNearFault(dist) == dist < NearFaultLimit

(* the land branch for a one-row nearest_segment *)
LandSegment(rows) ==
    IF IsNearFault(rows[1].Distance) THEN rows[1].Segment ELSE LocalFaultLabel

SeaSegmentGated(rows) ==
    IF rows[1].Distance < NearFaultLimit THEN rows[1].Segment ELSE LocalFaultLabel

(* the sea branch: nearest_segment.Segment.values[0] *)
SeaSegment(rows) == rows[1].Segment

Outcome(err, msg, inland, seg) == [err |-> err, msg |-> msg, inland |-> inland, seg |-> seg]

(* the attribute writes made after both type checks passed; emptyRaises is *)
(* whether this numpy raises on the truth value of an empty array (it      *)
(* returns False with a deprecation warning before numpy 2.2)              *)
Attribute(i, rows, seg1, emptyRaises) ==
    IF i = "True"
    THEN IF seg1 # "None" THEN Outcome("ok", "", LandLabel, seg1)
         ELSE IF Len(rows) = 1 THEN Outcome("ok", "", LandLabel, LandSegment(rows))
         ELSE IF Len(rows) > 1 \/ emptyRaises
              THEN Outcome("ValueError", "ambiguous truth value", LandLabel, "None")
         ELSE Outcome("ok", "", LandLabel, LocalFaultLabel)
    ELSE IF seg1 # "None" THEN Outcome("ok", "", SeaLabel, seg1)
         ELSE IF Len(rows) = 0 THEN Outcome("IndexError", "index 0", SeaLabel, "None")
         ELSE Outcome("ok", "", SeaLabel, SeaSegment(rows))

(* whether the truth value of an empty array raises depends on the numpy   *)
(* in use; for a non-empty array there is one outcome                      *)
EmptyTruth(rows) == IF Len(rows) = 0 THEN BOOLEAN ELSE {FALSE}

(* determine_eq_source, from its arguments and the attributes before the   *)
(* call to the error raised and the attributes after it                    *)
DetermineResult(inl, near, dep, emptyRaises) ==
    IF inl = "None" /\ self_is_inland = "None"
    THEN Outcome("ValueError", "location", self_is_inland, segment_name)
    ELSE IF near.t = "None" /\ self_nearest_segment.t = "unset"
    THEN Outcome("AttributeError", "nearest_segment", self_is_inland, segment_name)
    ELSE IF near.t = "None" /\ self_nearest_segment.t = "None"
    THEN Outcome("ValueError", "segment", self_is_inland, segment_name)
    ELSE IF dep.t = "None" /\ depth.t = "None"
    THEN Outcome("ValueError", "depth", self_is_inland, segment_name)
    ELSE IF ~IsNumeric(Eff(dep, depth))
    THEN Outcome("TypeError", "depth type", self_is_inland, segment_name)
    ELSE LET seg1 == IF IsSubduction(Eff(dep, depth)) THEN SubductionLabel ELSE "None"
             i == EffStr(inl, self_is_inland)
         IN IF ~IsBoolean(i)
            THEN Outcome("TypeError", "is_inland type", self_is_inland, seg1)
            ELSE Attribute(i, Eff(near, self_nearest_segment).rows, seg1, emptyRaises)

DetermineEqSourceCall(inl, near, dep) ==
    \E emptyRaises \in EmptyTruth(Eff(near, self_nearest_segment).rows) :
        LET r == DetermineResult(inl, near, dep, emptyRaises)
            rec == [NoCall EXCEPT !.inl = inl, !.near = near, !.dep = dep,
                                  !.e_inl = EffStr(inl, self_is_inland)]
        IN /\ Called("determine_eq_source", r.err, r.msg, rec)
           /\ self_is_inland' = r.inland
           /\ segment_name' = r.seg
           /\ UNCHANGED <<self_distance_to_fault, self_nearest_segment>>

DetermineEqSource ==
    \E inl \in InlandArgs, near \in NearestArgs, dep \in DepthArgs :
        DetermineEqSourceCall(inl, near, dep)

Next == IsInland \/ DistanceToFault \/ DetermineEqSource

Spec == Init /\ [][Next]_vars

(* the three methods called with their default arguments only, in any     *)
(* order and any number of times, as the script at the end of the file    *)
(* calls them                                                              *)
IsInlandDefault == IsInlandCall(None, None, "None")

DistanceToFaultDefault == DistanceToFaultCall(None, None, "None")

DetermineEqSourceDefault == DetermineEqSourceCall("None", NoneFrame, None)

NextDefault == IsInlandDefault \/ DistanceToFaultDefault \/ DetermineEqSourceDefault

SpecDefault == Init /\ [][NextDefault]_vars

(* ======================= the claims ==================================== *)
(* the last call was determine_eq_source; its effective inputs *)
Det == last.op = "determine_eq_source"

EffNear == Eff(last.near, self_nearest_segment)

EffDepth == Eff(last.dep, depth)

Labels == {SubductionLabel, LocalFaultLabel, LandLabel, SeaLabel}

(* C1: with a boolean location class and a nearest record, a depth above  *)
(* 50 makes determine_eq_source succeed with segment_name the subduction  *)
(* label, and a depth of 50 or less never leaves that label               *)
C1_DepthPrecedence ==
    (Det /\ IsBoolean(last.e_inl) /\ EffNear.t = "frame" /\ EffDepth.t \in {"int", "float"})
        => IF EffDepth.v > 50
           THEN last.err = "ok" /\ segment_name = "zona subduksi"
           ELSE segment_name # "zona subduksi"

(* a land event 15.999 km from its fault and deeper than 50 km got the    *)
(* subduction label                                                        *)
C1_Witness ==
    /\ Det /\ last.err = "ok" /\ last.e_inl = "True"
    /\ EffDepth.v = 51
    /\ EffNear.t = "frame" /\ Len(EffNear.rows) = 1 /\ EffNear.rows[1].Distance = 15999
    /\ segment_name = "zona subduksi"

C3_SeaUnconditional ==
    (Det /\ last.e_inl = "False" /\ EffDepth.t \in {"int", "float"} /\ EffDepth.v <= 50
         /\ EffNear.t = "frame" /\ Len(EffNear.rows) >= 1)
        => /\ last.err = "ok"
           /\ self_is_inland = "laut"
           /\ segment_name = EffNear.rows[1].Segment
           /\ segment_name # "Sesar Lokal"

(* a sea event more than 100 km from its nearest fault got that name      *)
C3_Witness ==
    /\ Det /\ last.err = "ok" /\ last.e_inl = "False" /\ EffDepth.v = 50
    /\ EffNear.t = "frame" /\ Len(EffNear.rows) >= 1 /\ EffNear.rows[1].Distance > 100000
    /\ segment_name = EffNear.rows[1].Segment

(* C4: after distance_to_fault on a non-empty layer nearest_segment is    *)
(* exactly one record, of minimum distance, the first such in layer order *)
C4_SingleFirstNearest ==
    (last.op = "distance_to_fault" /\ last.err = "ok" /\ Len(faultLayer) >= 1)
        => LET rows == self_distance_to_fault.rows
               near == self_nearest_segment.rows
           IN /\ Len(near) = 1
              /\ \E i \in 1..Len(rows) :
                    /\ near[1] = rows[i]
                    /\ \A j \in 1..Len(rows) : rows[i].Distance <= rows[j].Distance
                    /\ \A j \in 1..(i - 1) : rows[j].Distance > rows[i].Distance

(* the inputs of the last determine_eq_source call that were missing      *)
MissingLocation == last.inl = "None" /\ "is_inland" \notin completed

MissingNearest == last.near = NoneFrame /\ "distance_to_fault" \notin completed

MissingDepth == last.dep = None /\ depth = None

MissingMessages ==
    (IF MissingLocation THEN {"location"} ELSE {})
        \cup (IF MissingNearest THEN {"segment"} ELSE {})
        \cup (IF MissingDepth THEN {"depth"} ELSE {})

(* C5: determine_eq_source with a missing input raises the ValueError     *)
(* that names a missing input, and no other kind of error                 *)
C5_MissingInputRejected ==
    (Det /\ MissingMessages # {})
        => last.err = "ValueError" /\ last.msg \in MissingMessages

(* the effective inputs of a stage call, from its arguments in last'      *)
StageLat == Eff(last'.lat, latitude)

StageLon == Eff(last'.lon, longitude)

NotFloat(x) == x.t # "None" /\ x.t # "float"

DistanceStoresNothing == UNCHANGED <<self_distance_to_fault, self_nearest_segment>>

CoordinatesAccepted ==
    /\ last'.err # "ValueError"
    /\ last'.err = "TypeError" => last'.msg = "not callable"

C7_AllOrNothing ==
    [][last'.op = "determine_eq_source"
          => IF last'.err = "ok"
             THEN self_is_inland' \in {"darat", "laut"} /\ segment_name' \notin {"None", "unset"}
             ELSE UNCHANGED <<self_is_inland, segment_name>>]_vars

(* C8: determine_eq_source called again with the same arguments right     *)
(* after it succeeded succeeds again with the same two labels             *)
C8_Repeatable ==
    [][(/\ Det /\ last.err = "ok"
        /\ last'.op = "determine_eq_source"
        /\ last'.inl = last.inl /\ last'.near = last.near /\ last'.dep = last.dep)
          => (last'.err = "ok" /\ UNCHANGED <<self_is_inland, segment_name>>)]_vars

(* C9: with default arguments only, no label is on the object unless both *)
(* is_inland and distance_to_fault have completed                         *)
C9_JoinBeforeAttribution ==
    ~({"is_inland", "distance_to_fault"} \subseteq completed)
        => segment_name \notin Labels /\ self_is_inland \notin Labels

(* C10: is_inland leaves the distance records, the nearest segment and    *)
(* the constructor values alone, distance_to_fault leaves the containment *)
(* result and the constructor values alone, and what each stores is       *)
(* decided by the coordinates and its layer, whichever ran first          *)
C10_StageIndependence ==
    [][/\ last'.op = "is_inland"
            => /\ UNCHANGED <<self_distance_to_fault, self_nearest_segment>>
               /\ UNCHANGED <<latitude, longitude, depth, url_geometry>>
               /\ last'.err = "ok"
                    => self_is_inland' = BoolStr(-1 < StageLon.v /\ StageLon.v < 1)
       /\ last'.op = "distance_to_fault"
            => /\ UNCHANGED self_is_inland
               /\ UNCHANGED <<latitude, longitude, depth, url_geometry>>
               /\ last'.err = "ok"
                    => /\ self_distance_to_fault'.rows = DistanceRows(faultLayer, StageLon)
                       /\ \A i \in 1..Len(self_nearest_segment'.rows) :
                            \A j \in 1..Len(faultLayer) :
                              self_nearest_segment'.rows[i].Distance
                                <= 111180 * Abs(StageLon.v - faultLayer[j])]_vars

(* is_inland completed after distance_to_fault and the nearest segment is *)
(* still the one distance_to_fault stored                                 *)
C10_Witness ==
    /\ last.op = "is_inland" /\ last.err = "ok"
    /\ "distance_to_fault" \in completed
    /\ self_nearest_segment.t = "frame" /\ Len(self_nearest_segment.rows) >= 1
    /\ self_is_inland \in {"True", "False"}

====
